---- MODULE Spec2Model ----
(***************************************************************************)
(* dash-uploader: the chunked-upload protocol handler.                     *)
(*                                                                         *)
(* The request handler module (dash_uploader/httprequesthandler.py) is     *)
(* imported by configure_upload.py, __init__.py and the test apps but is   *)
(* not among the source files, so the handler, the chunk store, the        *)
(* assembly engine and the session tracker are modelled from spec.md       *)
(* sections 3 to 7, sentence by sentence, in the order the spec gives the  *)
(* steps.                                                                  *)
(***************************************************************************)
EXTENDS Integers, Sequences, FiniteSets, TLC

(***************************************************************************)
(* Bounds of the model.                                                    *)
(***************************************************************************)
MaxChunks == 2
MaxChunkSize == 2
MaxFileSize == 3
MaxFaults == 1
MaxBump == 3
MaxWait == 2
MaxTime == 3
MaxDuration == 2
MaxStart == 1
MaxConfigs == 2

(***************************************************************************)
(* The universe of requests.                                               *)
(***************************************************************************)
Workers == {"w1", "w2"}
Sessions == {"s1"}
AllowedFiles == {"a.zip"}
Files == AllowedFiles \cup {"b.exe"}
\* A second upload_id, used by the requests of SpecFiles only.
OtherSessions == {"s2"}
AllSessions == Sessions \cup OtherSessions
Keys == AllSessions \X AllowedFiles
ChunkSizes == 1..MaxChunkSize
TotalSizes == {MaxFileSize, MaxFileSize + 1}

NoRequest ==
  [kind |-> "none", sid |-> "-", fname |-> "-", idx |-> 0, csize |-> 0,
   tsize |-> 0, tchunks |-> 0, plen |-> 0]

\* Requests whose fields are all of the right shape; some of them still
\* fail a validation (index above total_chunks, payload size mismatch).
ShapedRequests ==
  [kind : {"receive"}, sid : Sessions, fname : AllowedFiles, idx : 1..MaxChunks,
   csize : ChunkSizes, tsize : {MaxFileSize}, tchunks : 1..MaxChunks,
   plen : 1..MaxChunkSize]

\* Malformed requests: one field of a one-byte-chunk request set out of range.
BaseRequests == {r \in ShapedRequests : r.csize = 1 /\ r.plen = 1 /\ r.idx <= r.tchunks}

MalformedRequests ==
  UNION {{[b EXCEPT !.idx = 0], [b EXCEPT !.idx = b.tchunks + 1],
          [b EXCEPT !.fname = "b.exe"], [b EXCEPT !.tsize = MaxFileSize + 1],
          [b EXCEPT !.plen = b.csize + 1]} : b \in BaseRequests}

ReceiveRequests == ShapedRequests \cup MalformedRequests

ProbeRequests ==
  [kind : {"probe"}, sid : Sessions, fname : AllowedFiles, idx : 1..MaxChunks,
   csize : ChunkSizes, tsize : {MaxFileSize}, tchunks : 1..MaxChunks, plen : {0}]

\* One-byte-chunk requests and probes of files of two sessions.
PairRequests ==
  [kind : {"receive"}, sid : AllSessions, fname : AllowedFiles,
   idx : 1..MaxChunks, csize : {1}, tsize : {MaxFileSize},
   tchunks : 1..MaxChunks, plen : {1}]

PairProbes ==
  [kind : {"probe"}, sid : AllSessions, fname : AllowedFiles,
   idx : {1}, csize : {1}, tsize : {MaxFileSize}, tchunks : {1}, plen : {0}]

\* Keys that are not namespaced by the upload id.
KeyOfShared(r) == <<"s1", r.fname>>

KeyOf(r) == <<r.sid, r.fname>>

\* The bytes of chunk idx with n bytes: n copies of its index.
Payload(idx, n) == [j \in 1..n |-> idx]

(***************************************************************************)
(* State.                                                                  *)
(***************************************************************************)
VARIABLES
  files,       \* SessionTracker: Keys -> FileUploadState
  chunks,      \* ChunkStore: Keys -> (staged index -> [payload, csize])
  tmpfile,     \* AssemblyEngine's temporary file of each key
  final,       \* the final destination path of each key
  lock,        \* the logical lock of each (session, file) pair
  bump,        \* the per-session callback trigger counter
  pc, req, res, ci,   \* each request worker: position, request, outcome
  faults,      \* history: injected faults (exhausted retry budgets, crashes)
  asmCount,    \* history: renames to the final path, per key
  notif,       \* history: counter increments made with the file Completed
  overwritten, \* history: a staged chunk of the key was overwritten
  mixed,       \* history: a chunk was written with another per-chunk size
               \* than the one the file was registered with
  rt,          \* utils.retry: the state of one call of a wrapped function
  settings,    \* settings.py: user_configs, user_configs_query,
               \* user_configs_default
  outcome,     \* the last configure call and what it raised
  cb           \* callbacks.py: the callback registered by du.callback and
               \* the last firing of its dash callback

handlerVars ==
  <<files, chunks, tmpfile, final, lock, bump, pc, req, res, ci,
    faults, asmCount, notif, overwritten, mixed>>

\* What the upload handler never touches.
aux == <<rt, settings, outcome, cb>>

vars == <<handlerVars, aux>>

storage == <<files, chunks, tmpfile, final>>
history == <<faults, asmCount, notif, overwritten, mixed>>

NoFile ==
  [total_chunks |-> 0, total_size |-> 0, chunk_size |-> 0,
   received_chunks |-> {}, status |-> "Unregistered"]

NoData == <<0>>

Registered(k) == files[k].status # "Unregistered"

HandlerInit ==
  /\ files = [k \in Keys |-> NoFile]
  /\ chunks = [k \in Keys |-> <<>>]
  /\ tmpfile = [k \in Keys |-> NoData]
  /\ final = [k \in Keys |-> NoData]
  /\ lock = [k \in Keys |-> "free"]
  /\ bump = [s \in AllSessions |-> 0]
  /\ pc = [w \in Workers |-> "idle"]
  /\ req = [w \in Workers |-> NoRequest]
  /\ res = [w \in Workers |-> "-"]
  /\ ci = [w \in Workers |-> 0]
  /\ faults = 0
  /\ asmCount = [k \in Keys |-> 0]
  /\ notif = [k \in Keys |-> 0]
  /\ overwritten = [k \in Keys |-> FALSE]
  /\ mixed = [k \in Keys |-> FALSE]

\* utils.retry: no call in progress.
RetryIdle ==
  [pc |-> "idle", wait_time |-> 0, max_time |-> 0, t0 |-> 0, now |-> 0,
   i |-> 0, attempts |-> 0, sleeps |-> 0, ok |-> 0, out |-> "-",
   exc |-> "-"]

\* Python's None where an index is expected.
None == -1

\* The component ids a configuration can name; user_configs_query maps
\* each id to the index of its entry, or to None when the key is absent.
ComponentIds == {"c1", "c2"}

\* settings.py as imported: no configuration yet.
InitialSettings ==
  [user_configs |-> <<>>,
   user_configs_query |-> [uid \in ComponentIds |-> None],
   user_configs_default |-> None]

NoOutcome ==
  [call |-> "-", app |-> "-", ids |-> <<>>, kind |-> "-", addr |-> <<>>,
   raised |-> "-", cleared |-> 0, tick |-> 0]

\* What UploadStatusLegacy.to_dict returns; error names the exception
\* raised by the constructor instead.
NoStatus ==
  [error |-> "none", uploaded_files |-> <<>>, latest_file |-> <<>>,
   n_uploaded |-> 0, n_total |-> 0, upload_id |-> "-", is_completed |-> FALSE,
   uploaded_size_mb |-> 0, total_size_mb |-> 0, progress |-> <<0, 1>>]

\* uploaded_filenames of the component: None until a file is uploaded.
NoFileNames == [none |-> TRUE, names |-> <<>>]

\* No callback registered, no firing yet.
NoCallback ==
  [reg |-> "-", requested |-> "-", dash112 |-> FALSE,
   kwargs |-> "-", app |-> "-", root |-> "-", use_upload_id |-> TRUE,
   fired |-> FALSE, callbackbump |-> 0, uploaded_filenames |-> NoFileNames,
   total_files_count |-> 0, uploaded_files_size |-> 0, total_files_size |-> 0,
   upload_id |-> "", raised |-> "-", calls |-> 0, status |-> NoStatus,
   persisted |-> <<>>]

Init ==
  /\ HandlerInit
  /\ rt = RetryIdle
  /\ settings = InitialSettings
  /\ outcome = NoOutcome
  /\ cb = NoCallback

(***************************************************************************)
(* UploadProtocolHandler.receive: validation (spec 4.1).                   *)
(***************************************************************************)
\* A validation that takes chunk indices as 0-based.
IndexInRangeZeroBased(r) == r.idx >= 0 /\ r.idx <= r.tchunks

IndexInRange(r) == r.idx >= 1 /\ r.idx <= r.tchunks

\* A validation without a size ceiling.
SizeWithinCeilingAlways(r) == TRUE

\* "total_size <= max_total_size"
SizeWithinCeiling(r) == r.tsize <= MaxFileSize

PayloadSizeOk(r) ==
  \/ r.plen = r.csize
  \/ r.idx = r.tchunks /\ r.plen <= r.csize

ExtensionAllowed(r) == r.fname \in AllowedFiles

Validate(r) ==
  IF ~IndexInRange(r) THEN "BadRequest"
  ELSE IF ~SizeWithinCeiling(r) THEN "PayloadTooLarge"
  ELSE IF ~PayloadSizeOk(r) THEN "BadRequest"
  ELSE IF ~ExtensionAllowed(r) THEN "BadRequest"
  ELSE "ok"

\* A registration that takes any metadata as matching.
MetadataMatchesAlways(f, r) == TRUE

\* SessionTracker.register (spec 4.4): matching metadata is a no-op,
\* mismatched metadata is a BadRequest.
MetadataMatches(f, r) ==
  f.total_chunks = r.tchunks /\ f.total_size = r.tsize

Register(f, r) ==
  IF f.status = "Unregistered"
  THEN [total_chunks |-> r.tchunks, total_size |-> r.tsize,
        chunk_size |-> r.csize, received_chunks |-> {}, status |-> "Uploading"]
  ELSE f

Admit(r) ==
  LET v == Validate(r) IN
    IF v # "ok" THEN v
    ELSE IF Registered(KeyOf(r)) /\ ~MetadataMatches(files[KeyOf(r)], r)
         THEN "BadRequest"
         ELSE "ok"

InFlight(s) ==
  Cardinality({w \in Workers : req[w].kind = "receive" /\ req[w].sid = s
                               /\ pc[w] \notin {"idle", "done", "crashed"}})

Reject(w, r, v) ==
  /\ pc' = [pc EXCEPT ![w] = "done"]
  /\ req' = [req EXCEPT ![w] = r]
  /\ res' = [res EXCEPT ![w] = v]
  /\ UNCHANGED <<storage, lock, bump, ci, history>>

ReceiveFrom(w, requests) ==
  /\ pc[w] = "idle"
  /\ \E r \in requests :
       /\ bump[r.sid] + InFlight(r.sid) < MaxBump
       /\ IF Admit(r) # "ok"
          THEN Reject(w, r, Admit(r))
          ELSE /\ files' = [files EXCEPT ![KeyOf(r)] = Register(@, r)]
               /\ pc' = [pc EXCEPT ![w] = "write"]
               /\ req' = [req EXCEPT ![w] = r]
               /\ UNCHANGED <<chunks, tmpfile, final, lock, bump, res, ci,
                              history>>
  /\ UNCHANGED aux

Receive(w) == ReceiveFrom(w, ReceiveRequests)

(***************************************************************************)
(* ChunkStore.write (spec 4.2), outside the lock (spec 5).                 *)
(***************************************************************************)
Staged(k) == DOMAIN chunks[k]

SameChunkPresent(k, r) ==
  r.idx \in Staged(k) /\ chunks[k][r.idx].csize = r.csize

\* A write that also drops the staged chunks of another declared size.
StoreWriteDropping(store, r) ==
  (r.idx :> [payload |-> Payload(r.idx, r.plen), csize |-> r.csize])
    @@ [i \in {j \in DOMAIN store : store[j].csize = r.csize} |-> store[i]]

StoreWrite(store, r) ==
  (r.idx :> [payload |-> Payload(r.idx, r.plen), csize |-> r.csize]) @@ store

WriteChunk(w) ==
  /\ pc[w] = "write"
  /\ LET r == req[w]
         k == KeyOf(r) IN
       /\ IF SameChunkPresent(k, r)
          THEN UNCHANGED <<chunks, overwritten>>
          ELSE /\ chunks' = [chunks EXCEPT ![k] = StoreWrite(@, r)]
               /\ overwritten' =
                    [overwritten EXCEPT ![k] = @ \/ r.idx \in Staged(k)]
       /\ mixed' = [mixed EXCEPT ![k] = @ \/ r.csize # files[k].chunk_size]
       /\ pc' = [pc EXCEPT ![w] = "lock_mark"]
       /\ UNCHANGED <<files, tmpfile, final, lock, bump, req, res, ci,
                      faults, asmCount, notif>>
  /\ UNCHANGED aux

\* The write exhausts its retry budget: ServerError, nothing written.
WriteChunkFail(w) ==
  /\ pc[w] = "write"
  /\ faults < MaxFaults
  /\ faults' = faults + 1
  /\ pc' = [pc EXCEPT ![w] = "done"]
  /\ res' = [res EXCEPT ![w] = "ServerError"]
  /\ UNCHANGED <<storage, lock, bump, req, ci, asmCount, notif, overwritten, mixed>>
  /\ UNCHANGED aux

(***************************************************************************)
(* The per-(session, file) logical lock (spec 5).                          *)
(***************************************************************************)
\* One lock for all files: available only when no lock at all is held.
LockAvailableGlobal(k) == \A j \in Keys : lock[j] = "free"

\* "Each (session_id, filename) pair has exactly one logical lock"
LockAvailable(k) == lock[k] = "free"

Acquire(w) ==
  /\ pc[w] \in {"lock_mark", "lock_final"}
  /\ LockAvailable(KeyOf(req[w]))
  /\ lock' = [lock EXCEPT ![KeyOf(req[w])] = w]
  /\ pc' = [pc EXCEPT ![w] = IF pc[w] = "lock_mark" THEN "mark" ELSE "finalize"]
  /\ UNCHANGED <<storage, bump, req, res, ci, history>>
  /\ UNCHANGED aux

Release(k) == lock' = [lock EXCEPT ![k] = "free"]

(***************************************************************************)
(* markChunkReceived, the completion check and the AssemblyEngine's        *)
(* double check, under the lock (spec 4.1, 4.3).                           *)
(***************************************************************************)
MarkReceived(f, r) ==
  [f EXCEPT !.received_chunks = @ \cup {r.idx}]

IsComplete(f) == f.received_chunks = 1..f.total_chunks

\* A guard that lets no request assemble.
MayAssembleNever(f) == FALSE

\* A guard that lets every request that observes completion assemble.
MayAssembleAlways(f) == TRUE

\* "if another request already transitioned this file's status past
\* Uploading, return immediately without re-assembling"
MayAssemble(f) == f.status = "Uploading"

\* The request returns: the UploadStatus is recomputed and the callback
\* trigger counter of the session is incremented.  The response is the
\* file's state, or the assembly result when the engine was invoked.
Return(w, k, status, response) ==
  /\ bump' = [bump EXCEPT ![k[1]] = @ + 1]
  /\ notif' = [notif EXCEPT ![k] = IF status = "Completed" THEN @ + 1 ELSE @]
  /\ res' = [res EXCEPT ![w] = response]
  /\ pc' = [pc EXCEPT ![w] = "done"]

Mark(w) ==
  /\ pc[w] = "mark"
  /\ LET r == req[w]
         k == KeyOf(r)
         f == MarkReceived(files[k], r) IN
       /\ Release(k)
       /\ IF IsComplete(f) /\ MayAssemble(f)
          THEN /\ files' = [files EXCEPT ![k] = [f EXCEPT !.status = "Assembling"]]
               /\ tmpfile' = [tmpfile EXCEPT ![k] = <<>>]
               /\ ci' = [ci EXCEPT ![w] = 1]
               /\ pc' = [pc EXCEPT ![w] = "concat"]
               /\ UNCHANGED <<bump, notif, res>>
          ELSE /\ files' = [files EXCEPT ![k] = f]
               /\ Return(w, k, f.status,
                         IF IsComplete(f) THEN "AssemblyResult" ELSE "State")
               /\ UNCHANGED <<tmpfile, ci>>
       /\ UNCHANGED <<chunks, final, req, faults, asmCount, overwritten, mixed>>
  /\ UNCHANGED aux

(***************************************************************************)
(* AssemblyEngine (spec 4.3): concatenation in ascending index order into  *)
(* a temporary file, rename under the lock, removeAll, Completed.          *)
(***************************************************************************)
\* A concatenation that puts each next chunk in front of the data so far.
AppendChunkPrepend(data, payload) == payload \o data

AppendChunk(data, payload) == data \o payload

\* A concatenation that stops after the first chunk.
ConcatDoneEarly(f, i) == TRUE

\* The chunk just appended was the last one of the file.
ConcatDone(f, i) == i = f.total_chunks

Concat(w) ==
  /\ pc[w] = "concat"
  /\ LET k == KeyOf(req[w])
         i == ci[w] IN
       /\ tmpfile' = [tmpfile EXCEPT ![k] = AppendChunk(@, chunks[k][i].payload)]
       /\ ci' = [ci EXCEPT ![w] = i + 1]
       /\ pc' = [pc EXCEPT ![w] =
                   IF ConcatDone(files[k], i) THEN "lock_final" ELSE "concat"]
  /\ UNCHANGED <<files, chunks, final, lock, bump, req, res, history>>
  /\ UNCHANGED aux

RemoveAll(store) == <<>>

\* A removal failure that fails the request.
RemoveFailureFatal == [status |-> "Failed", response |-> "ServerError"]

\* removeAll: "failures are retried and, if still failing, logged but
\* non-fatal".
RemoveFailure == [status |-> "Completed", response |-> "AssemblyResult"]

Finalize(w) ==
  /\ pc[w] = "finalize"
  /\ LET k == KeyOf(req[w]) IN
       /\ final' = [final EXCEPT ![k] = tmpfile[k]]
       /\ tmpfile' = [tmpfile EXCEPT ![k] = NoData]
       /\ \/ /\ chunks' = [chunks EXCEPT ![k] = RemoveAll(@)]
             /\ UNCHANGED faults
             /\ files' = [files EXCEPT ![k].status = "Completed"]
             /\ Return(w, k, "Completed", "AssemblyResult")
          \/ /\ faults < MaxFaults        \* removeAll fails after its retries
             /\ faults' = faults + 1
             /\ UNCHANGED chunks
             /\ files' = [files EXCEPT ![k].status = RemoveFailure.status]
             /\ Return(w, k, RemoveFailure.status, RemoveFailure.response)
       /\ asmCount' = [asmCount EXCEPT ![k] = @ + 1]
       /\ Release(k)
  /\ UNCHANGED <<req, ci, overwritten, mixed>>
  /\ UNCHANGED aux

\* A failure handling that clears the staging area.
StagedAfterFailureCleared(store) == <<>>

\* "the file remains in its pre-assembly staged state"
StagedAfterFailure(store) == store

\* A step of the assembly exhausts its retry budget: status Failed,
\* ServerError; the staged chunks are left as they are.
AssemblyFail(w) ==
  /\ pc[w] \in {"concat", "finalize"}
  /\ LET k == KeyOf(req[w]) IN
       /\ faults < MaxFaults
       /\ faults' = faults + 1
       /\ files' = [files EXCEPT ![k].status = "Failed"]
       /\ tmpfile' = [tmpfile EXCEPT ![k] = NoData]
       /\ chunks' = [chunks EXCEPT ![k] = StagedAfterFailure(@)]
       /\ lock' = [lock EXCEPT ![k] = IF @ = w THEN "free" ELSE @]
  /\ pc' = [pc EXCEPT ![w] = "done"]
  /\ res' = [res EXCEPT ![w] = "ServerError"]
  /\ UNCHANGED <<final, bump, req, ci, asmCount, notif, overwritten, mixed>>
  /\ UNCHANGED aux

\* The worker dies mid-assembly: the file stays Assembling (spec 5).
Crash(w) ==
  /\ pc[w] \in {"concat", "lock_final", "finalize"}
  /\ faults < MaxFaults
  /\ faults' = faults + 1
  /\ pc' = [pc EXCEPT ![w] = "crashed"]
  /\ lock' = [lock EXCEPT ![KeyOf(req[w])] = IF @ = w THEN "free" ELSE @]
  /\ UNCHANGED <<storage, bump, req, res, ci, asmCount, notif, overwritten, mixed>>
  /\ UNCHANGED aux

(***************************************************************************)
(* UploadProtocolHandler.probe (spec 4.1): read-only, lazily registers.    *)
(***************************************************************************)
ProbeResult(k, r) ==
  IF r.idx \in Staged(k) /\ chunks[k][r.idx].csize = r.csize
  THEN "Found" ELSE "NotFound"

\* A probe that deletes the stored chunk whose size differs from the
\* declared one.
StoreAfterProbeInvalidating(store, r) ==
  IF r.idx \in DOMAIN store /\ store[r.idx].csize # r.csize
  THEN [i \in DOMAIN store \ {r.idx} |-> store[i]]
  ELSE store

\* "Side effect: none (read-only probe)": a stored chunk of another size
\* does not count as found and stays where it is.
StoreAfterProbe(store, r) == store

ProbeFrom(w, requests) ==
  /\ pc[w] = "idle"
  /\ \E r \in requests :
       /\ IndexInRange(r)
       /\ files' = [files EXCEPT ![KeyOf(r)] = Register(@, r)]
       /\ chunks' = [chunks EXCEPT ![KeyOf(r)] = StoreAfterProbe(@, r)]
       /\ req' = [req EXCEPT ![w] = r]
       /\ res' = [res EXCEPT ![w] = ProbeResult(KeyOf(r), r)]
  /\ pc' = [pc EXCEPT ![w] = "done"]
  /\ UNCHANGED <<tmpfile, final, lock, bump, ci, history>>
  /\ UNCHANGED aux

Probe(w) == ProbeFrom(w, ProbeRequests)

\* The response has been sent; the worker serves the next connection.
Finish(w) ==
  /\ pc[w] \in {"done", "crashed"}
  /\ pc' = [pc EXCEPT ![w] = "idle"]
  /\ req' = [req EXCEPT ![w] = NoRequest]
  /\ res' = [res EXCEPT ![w] = "-"]
  /\ ci' = [ci EXCEPT ![w] = 0]
  /\ UNCHANGED <<storage, lock, bump, history>>
  /\ UNCHANGED aux

Next ==
  \E w \in Workers :
    \/ Receive(w)
    \/ WriteChunk(w)
    \/ WriteChunkFail(w)
    \/ Acquire(w)
    \/ Mark(w)
    \/ Concat(w)
    \/ Finalize(w)
    \/ AssemblyFail(w)
    \/ Crash(w)
    \/ Probe(w)
    \/ Finish(w)

Spec == Init /\ [][Next]_vars

(***************************************************************************)
(* The same handler serving one-byte-chunk uploads of two sessions.        *)
(***************************************************************************)
\* The handler with no retry budget exhausted before the rename and no
\* worker dying, under fair scheduling: a worker that can take a step of
\* its request takes it, and a worker that waits for a lock that is free
\* again and again gets it.
NextLive ==
  \E w \in Workers :
    \/ Receive(w)
    \/ WriteChunk(w)
    \/ Acquire(w)
    \/ Mark(w)
    \/ Concat(w)
    \/ Finalize(w)
    \/ Probe(w)
    \/ Finish(w)

Fairness ==
  \A w \in Workers :
    /\ WF_vars(WriteChunk(w) \/ Mark(w) \/ Concat(w) \/ Finalize(w))
    /\ SF_vars(Acquire(w))

SpecLive == Init /\ [][NextLive]_vars /\ Fairness

ReceivePair(w) == ReceiveFrom(w, PairRequests)

ProbePair(w) == ProbeFrom(w, PairProbes)

NextFiles ==
  \E w \in Workers :
    \/ ReceivePair(w)
    \/ WriteChunk(w)
    \/ WriteChunkFail(w)
    \/ Acquire(w)
    \/ Mark(w)
    \/ Concat(w)
    \/ Finalize(w)
    \/ AssemblyFail(w)
    \/ Crash(w)
    \/ ProbePair(w)
    \/ Finish(w)

SpecFiles == Init /\ [][NextFiles]_vars

(***************************************************************************)
(* utils.retry(wait_time, max_time): one call of the wrapper around a      *)
(* function that returns a value or raises an Exception.  Time is in       *)
(* ticks; an attempt of the function takes 1..MaxDuration ticks.           *)
(***************************************************************************)
WaitTimes == 0..MaxWait
MaxTimes == 0..MaxTime
Durations == 1..MaxDuration
StartTimes == 0..MaxStart

\* A handler that gives up at the first exception.
BudgetExhaustedAlways(elapsed, max_time) == TRUE

\* "if time.time() - t0 > max_time: raise e"
BudgetExhausted(elapsed, max_time) == elapsed > max_time

\* wrapper(*args, **kwargs) is called: t0 = time.time(); i = 1.
RetryCall ==
  /\ rt.pc = "idle"
  /\ \E wt \in WaitTimes, mt \in MaxTimes, start \in StartTimes :
       rt' = [RetryIdle EXCEPT !.pc = "attempt", !.wait_time = wt,
                               !.max_time = mt, !.t0 = start, !.now = start,
                               !.i = 1]
  /\ UNCHANGED <<handlerVars, settings, outcome, cb>>

\* A loop without the break: the value is kept and the loop goes on.
AfterReturnNoBreak(r) == [r EXCEPT !.pc = "sleep", !.out = "value"]

\* "out = function(*args, **kwargs); break" and, after the loop,
\* "return out".
AfterReturn(r) == [r EXCEPT !.pc = "returned", !.out = "value"]

\* out = function(*args, **kwargs); break; finally i += 1; return out.
\* ok counts the attempts in which the wrapped function returned.
AttemptReturns ==
  /\ rt.pc = "attempt"
  /\ \E d \in Durations :
       rt' = AfterReturn([rt EXCEPT !.now = @ + d, !.attempts = @ + 1,
                                   !.ok = @ + 1, !.i = @ + 1])
  /\ UNCHANGED <<handlerVars, settings, outcome, cb>>

\* function raises an Exception: re-raise when the budget is used up,
\* else go to sleep; finally i += 1.
AttemptRaises ==
  /\ rt.pc = "attempt"
  /\ \E d \in Durations :
       rt' = IF BudgetExhausted(rt.now + d - rt.t0, rt.max_time)
             THEN [rt EXCEPT !.pc = "raised", !.now = @ + d, !.exc = "error",
                             !.attempts = @ + 1, !.i = @ + 1]
             ELSE [rt EXCEPT !.pc = "sleep", !.now = @ + d,
                             !.attempts = @ + 1, !.i = @ + 1]
  /\ UNCHANGED <<handlerVars, settings, outcome, cb>>

\* time.sleep(wait_time), then the next trial.
Sleep ==
  /\ rt.pc = "sleep"
  /\ rt' = [rt EXCEPT !.pc = "attempt", !.now = @ + rt.wait_time,
                      !.sleeps = @ + 1]
  /\ UNCHANGED <<handlerVars, settings, outcome, cb>>

\* The caller has the result (or the exception) of the call.
RetryDone ==
  /\ rt.pc \in {"returned", "raised"}
  /\ rt' = RetryIdle
  /\ UNCHANGED <<handlerVars, settings, outcome, cb>>

NextRetry == RetryCall \/ AttemptReturns \/ AttemptRaises \/ Sleep \/ RetryDone

\* The thread that runs the wrapper keeps running, and the wrapped
\* function and time.sleep return.
SpecRetry ==
  /\ Init /\ [][NextRetry]_vars
  /\ WF_vars(AttemptReturns \/ AttemptRaises)
  /\ WF_vars(Sleep)

(***************************************************************************)
(* configure_upload.py, settings.py and the lookups by component id.       *)
(* Strings that are joined or compared with "" are sequences of tokens     *)
(* ("/" or a name); indices into user_configs are 0-based as in the code.  *)
(***************************************************************************)
Apps == {"dash1", "dash2", "flask1", "object"}

\* isinstance(app, dash.Dash) and isinstance(app, flask.Flask)
IsDash(app) == app \in {"dash1", "dash2"}
IsFlask(app) == app = "flask1"

\* str(app.config.get("requests_pathname_prefix", "/"))
RequestsPathnamePrefix(app) ==
  IF app = "dash2" THEN <<"/", "proxy", "/">> ELSE <<"/">>

\* settings.upload_api = "/API/dash-uploader", and a custom end point.
DefaultUploadApi == <<"/", "API", "/", "dash-uploader">>
UploadApis == {<<>>, <<"/", "custom">>}

Folders == {"uploads"}
RemoteAddrs == {<<>>, <<"http://remote/api">>}

\* The argument upload_component_ids: None, a str, or a sequence of str.
IdStrings == ComponentIds \cup {""}
NoIds == [kind |-> "none", v |-> <<>>]
IdArgs ==
  {NoIds}
  \cup {[kind |-> "str", v |-> <<x>>] : x \in IdStrings}
  \cup {[kind |-> "seq", v |-> q] :
          q \in {<<>>, <<"c1", "c2">>, <<"c1", "c1">>}
                \cup {<<x>> : x \in IdStrings}}

\* The ids the lookups are asked about: "c9" is never configured.
LookupIds == ComponentIds \cup {"c9"}

RECURSIVE RStrip(_)
RStrip(str) ==
  IF Len(str) > 0 /\ str[Len(str)] = "/"
  THEN RStrip(SubSeq(str, 1, Len(str) - 1)) ELSE str

RECURSIVE LStrip(_)
LStrip(str) ==
  IF Len(str) > 0 /\ str[1] = "/" THEN LStrip(Tail(str)) ELSE str

update_upload_api(requests_pathname_prefix, upload_api) ==
  IF requests_pathname_prefix = <<"/">> THEN upload_api
  ELSE RStrip(requests_pathname_prefix) \o <<"/">> \o LStrip(upload_api)

Cleared ==
  [user_configs |-> <<>>,
   user_configs_query |-> [uid \in ComponentIds |-> None],
   user_configs_default |-> None]

\* A reset that keeps the component-id mappings.
ResetModeKeepQuery(st) ==
  [Cleared EXCEPT !.user_configs_query = st.user_configs_query]

\* A reset that keeps the recorded configurations.
ResetModeKeepConfigs(st) == [Cleared EXCEPT !.user_configs = st.user_configs]

\* Reset mode: user_configs.clear(), user_configs_query.clear(),
\* user_configs_default = None.
ResetMode(st) == Cleared

Elements(q) == {q[j] : j \in 1..Len(q)}

\* A check that never finds an id configured before.
RepeatedIdNever(st, valid_ids) == FALSE

\* "for uid in valid_ids: if uid in settings.user_configs_query"
RepeatedId(st, valid_ids) ==
  \E uid \in Elements(valid_ids) : st.user_configs_query[uid] # None

\* The result of check_upload_component_ids: what it raised, the settings
\* it left, and the ids it returned.
check_upload_component_ids(st, app, ids) ==
  IF ids.kind = "none"
  THEN IF st.user_configs_default # None
       THEN IF st.user_configs[st.user_configs_default + 1].app = app
            THEN [raised |-> "ValueError", settings |-> st, valid_ids |-> <<>>]
            ELSE [raised |-> "none", settings |-> ResetMode(st),
                  valid_ids |-> <<>>]
       ELSE [raised |-> "none", settings |-> st, valid_ids |-> <<>>]
  ELSE IF \E x \in Elements(ids.v) : x = ""
  THEN [raised |-> "TypeError", settings |-> st, valid_ids |-> <<>>]
  ELSE IF RepeatedId(st, ids.v)
  THEN [raised |-> "ValueError", settings |-> st, valid_ids |-> <<>>]
  ELSE [raised |-> "none", settings |-> st, valid_ids |-> ids.v]

\* The record of a call: its arguments, what it raised, and how many
\* configurations were recorded when its reset mode ran (0 when it did not).
Raise(call, app, ids, addr, exc, cleared) ==
  [call |-> call, app |-> app, ids |-> ids.v, kind |-> ids.kind,
   addr |-> addr, raised |-> exc, cleared |-> cleared,
   tick |-> 1 - outcome.tick]

RECURSIVE SetQuery(_, _, _)
SetQuery(query, ids, app_idx) ==
  IF ids = <<>> THEN query
  ELSE SetQuery([query EXCEPT ![Head(ids)] = app_idx], Tail(ids), app_idx)

\* configure_upload(app, folder, upload_api=api, allowed_origins=...):
\* origins_ok says whether allowed_origins passes check_allowed_origins,
\* decorated whether decorate_server returns.
ConfigureUpload ==
  /\ \E app \in Apps, folder \in Folders, api \in UploadApis,
        origins_ok \in BOOLEAN, decorated \in BOOLEAN :
       LET c == check_upload_component_ids(settings, app, NoIds)
           upload_api == IF api = <<>> THEN DefaultUploadApi ELSE api
           service == IF IsDash(app)
                      THEN update_upload_api(RequestsPathnamePrefix(app),
                                             upload_api)
                      ELSE upload_api
           app_idx == Len(c.settings.user_configs)
           entry == [app |-> app, service |-> service,
                     upload_api |-> upload_api,
                     upload_folder_root |-> folder, is_dash |-> IsDash(app),
                     upload_component_ids |-> <<>>]
           exc == IF ~IsDash(app) /\ ~IsFlask(app) THEN "TypeError"
                  ELSE IF ~origins_ok THEN "TypeError"
                  ELSE IF c.raised # "none" THEN c.raised
                  ELSE IF ~decorated THEN "Exception"
                  ELSE "none"
           checked == (IsDash(app) \/ IsFlask(app)) /\ origins_ok IN
         /\ Len(c.settings.user_configs) < MaxConfigs
         /\ outcome' = Raise("configure_upload", app, NoIds, <<>>, exc,
                             IF checked /\ c.settings # settings
                             THEN Len(settings.user_configs) ELSE 0)
         /\ settings' =
              IF ~checked THEN settings
              ELSE IF exc # "none" THEN c.settings
              ELSE [user_configs |-> Append(c.settings.user_configs, entry),
                    user_configs_query |-> c.settings.user_configs_query,
                    user_configs_default |-> app_idx]
  /\ UNCHANGED <<handlerVars, rt, cb>>

\* configure_remote_upload(app, remote_addr, upload_component_ids)
ConfigureRemoteUpload ==
  /\ \E app \in Apps, remote_addr \in RemoteAddrs, ids \in IdArgs :
       LET c == check_upload_component_ids(settings, app, ids)
           app_idx == Len(c.settings.user_configs)
           entry == [app |-> app, service |-> remote_addr,
                     upload_api |-> <<>>,
                     upload_folder_root |-> "", is_dash |-> TRUE,
                     upload_component_ids |-> c.valid_ids]
           exc == IF ~IsDash(app) THEN "TypeError"
                  ELSE IF c.raised # "none" THEN c.raised
                  ELSE IF remote_addr = <<>> THEN "TypeError"
                  ELSE "none" IN
         /\ Len(c.settings.user_configs) < MaxConfigs
         /\ outcome' = Raise("configure_remote_upload", app, ids,
                             remote_addr, exc,
                             IF IsDash(app) /\ c.settings # settings
                             THEN Len(settings.user_configs) ELSE 0)
         /\ settings' =
              IF ~IsDash(app) THEN settings
              ELSE IF exc # "none" THEN c.settings
              ELSE \* "if upload_component_ids is not None" holds for the
                   \* tuple check_upload_component_ids returned
                   [user_configs |-> Append(c.settings.user_configs, entry),
                    user_configs_query |->
                      SetQuery(c.settings.user_configs_query, c.valid_ids,
                               app_idx),
                    user_configs_default |-> c.settings.user_configs_default]
  /\ UNCHANGED <<handlerVars, rt, cb>>

\* settings.user_configs_query.get(component_id, None)
QueryGet(st, component_id) ==
  IF component_id \in ComponentIds
  THEN st.user_configs_query[component_id] ELSE None

\* The index both lookups compute.
QueryIndex(st, component_id) ==
  IF QueryGet(st, component_id) = None /\ st.user_configs_default # None
  THEN st.user_configs_default
  ELSE 0

\* upload.py _query_service_addr
query_service_addr(st, component_id) ==
  LET app_idx == QueryIndex(st, component_id) IN
    IF app_idx + 1 > Len(st.user_configs)
    THEN [raised |-> "IndexError", service |-> <<>>]
    ELSE [raised |-> "none", service |-> st.user_configs[app_idx + 1].service]

\* callbacks.py _query_app_and_root
query_app_and_root(st, component_id) ==
  LET app_idx == QueryIndex(st, component_id) IN
    IF app_idx + 1 > Len(st.user_configs)
    THEN [raised |-> "IndexError", app |-> "-", upload_folder_root |-> "-"]
    ELSE IF ~st.user_configs[app_idx + 1].is_dash
    THEN [raised |-> "TypeError", app |-> "-", upload_folder_root |-> "-"]
    ELSE [raised |-> "none", app |-> st.user_configs[app_idx + 1].app,
          upload_folder_root |->
            st.user_configs[app_idx + 1].upload_folder_root]

NextConfig == ConfigureUpload \/ ConfigureRemoteUpload

SpecConfig == Init /\ [][NextConfig]_vars

(***************************************************************************)
(* UploadStatus (uploadstatus.py) built from the tracker's snapshot of a   *)
(* session (spec 3, 4.4).  Sizes are in bytes; progress is the quotient    *)
(* uploaded_size_mb / total_size_mb, kept as numerator and denominator.    *)
(***************************************************************************)
\* A path as text is the sequence of its parts between separators.
\* str(Path(x)): empty parts and "." parts are dropped.
IsPathPart(c) == c \notin {"", "."}
PathStr(x) == SelectSeq(x, IsPathPart)

\* A status that reports the first file as the latest.
LatestFileFirst(paths) == paths[1]

\* "self.latest_file = self.uploaded_files[-1]"
LatestFile(paths) == paths[Len(paths)]

\* UploadStatusLegacy.__init__ followed by to_dict.
UploadStatusLegacy(uploaded_files, n_total, uploaded_size_mb, total_size_mb, upload_id) ==
  IF Len(uploaded_files) = 0
  THEN [NoStatus EXCEPT !.error = "IndexError"]
  ELSE IF total_size_mb = 0
  THEN [NoStatus EXCEPT !.error = "ZeroDivisionError"]
  ELSE [error |-> "none",
        uploaded_files |->
          [i \in 1..Len(uploaded_files) |-> PathStr(uploaded_files[i])],
        latest_file |->
          LatestFile([i \in 1..Len(uploaded_files) |->
                        PathStr(uploaded_files[i])]),
        n_uploaded |-> Len(uploaded_files),
        n_total |-> n_total,
        upload_id |-> upload_id,
        is_completed |-> (Len(uploaded_files) = n_total),
        uploaded_size_mb |-> uploaded_size_mb,
        total_size_mb |-> total_size_mb,
        progress |-> <<uploaded_size_mb, total_size_mb>>]

ProgressIsOne(q) == q[2] # 0 /\ q[1] = q[2]

\* The files of a session the tracker knows, and the uploaded ones.
SessionKeys(s) == {k \in Keys : k[1] = s /\ files[k].status # "Unregistered"}
UploadedKeys(s) == {k \in SessionKeys(s) : files[k].status = "Completed"}

RECURSIVE FileNames(_)
FileNames(K) ==
  IF K = {} THEN <<>>
  ELSE LET k == CHOOSE x \in K : TRUE IN <<<<k[2]>>>> \o FileNames(K \ {k})

RECURSIVE FinalBytes(_)
FinalBytes(K) ==
  IF K = {} THEN 0
  ELSE LET k == CHOOSE x \in K : TRUE IN Len(final[k]) + FinalBytes(K \ {k})

RECURSIVE DeclaredBytes(_)
DeclaredBytes(K) ==
  IF K = {} THEN 0
  ELSE LET k == CHOOSE x \in K : TRUE IN
         files[k].total_size + DeclaredBytes(K \ {k})

\* SessionTracker.snapshot (spec 4.4): a pure read.
Snapshot(s) ==
  UploadStatusLegacy(FileNames(UploadedKeys(s)), Cardinality(SessionKeys(s)),
                     FinalBytes(UploadedKeys(s)), DeclaredBytes(SessionKeys(s)),
                     s)

(***************************************************************************)
(* du.callback and the dash callback it registers (callbacks.py).  A path  *)
(* is the sequence of its components; joining an absolute name onto a path *)
(* gives the absolute name alone, as pathlib does.                         *)
(***************************************************************************)
PreventArgs == {"None", "True", "False"}
FileNames2 == {<<>>, <<"a.zip">>, <<"a.zip", "/b.zip">>}
FileNameArgs == {NoFileNames} \cup {[none |-> FALSE, names |-> n] : n \in FileNames2}
UploadIds == {"", "s1"}
CallbackBumps == {0, 1}
FileCounts == {1, 2}
\* uploaded_files_size and total_files_size of one firing
SizesMb == {<<0, 0>>, <<0, 1>>, <<1, 1>>}

IsAbsolute(name) == name \in {"/b.zip"}
PathJoin(path, name) == IF IsAbsolute(name) THEN <<name>> ELSE Append(path, name)

\* The app was constructed with prevent_initial_callbacks=True.
PreventInitialCallbacks(app) == app = "dash2"

\* "if not callbackbump": 0 and None are falsy.
Truthy(callbackbump) == callbackbump # 0

\* kwargs["prevent_initial_call"] of app.callback; "absent" when the key is
\* not set.
PreventKwarg(prevent_initial_call, dash112) ==
  IF ~dash112 THEN "absent"
  ELSE IF prevent_initial_call = "None" THEN "True"
  ELSE prevent_initial_call

\* What dash makes of the keyword: without it the app-level setting counts.
RegisteredPreventInitialCall(kwargs, app) ==
  IF kwargs = "absent" THEN PreventInitialCallbacks(app) ELSE kwargs = "True"

\* The wrapper made by _create_dash_callback; calls counts the calls of the
\* user's function, status is the argument of that call.
wrapper(app_root_folder, callbackbump, uploaded_filenames, total_files_count, uploaded_files_size, total_files_size, upload_id) ==
  IF ~Truthy(callbackbump)
  THEN [raised |-> "PreventUpdate", calls |-> 0, status |-> NoStatus]
  ELSE
    LET root_folder == IF upload_id # ""
                       THEN PathJoin(<<app_root_folder>>, upload_id)
                       ELSE <<app_root_folder>>
        names == uploaded_filenames.names
        uploadedfilepaths ==
          IF uploaded_filenames.none THEN <<>>
          ELSE [i \in 1..Len(names) |->
                  PathStr(PathJoin(root_folder, names[i]))]
        status == UploadStatusLegacy(uploadedfilepaths, total_files_count,
                                     uploaded_files_size, total_files_size,
                                     upload_id) IN
      IF status.error # "none"
      THEN [raised |-> status.error, calls |-> 0, status |-> NoStatus]
      ELSE [raised |-> "none", calls |-> 1, status |-> status]

\* Where the upload handler puts a file: "If True, uploads will be put into
\* `folder`/<upload_id>/ ... If False, all files from all sessions are
\* uploaded into same folder".
PersistedPath(folder, use_upload_id, upload_id, filename) ==
  IF use_upload_id /\ upload_id # ""
  THEN <<folder, upload_id, filename>>
  ELSE <<folder, filename>>

\* @du.callback(output, id, prevent_initial_call=...) applied to a function;
\* dash112 says whether the installed dash is at least 1.12, use_upload_id is
\* the value configure_upload gave to decorate_server for the app.  The
\* decorator runs while the application is set up, not during a firing.
RegisterCallback ==
  /\ ~cb.fired
  /\ \E id \in LookupIds, prevent_initial_call \in PreventArgs,
        dash112 \in BOOLEAN, use_upload_id \in BOOLEAN :
       LET q == query_app_and_root(settings, id)
           exc == IF q.raised # "none" THEN q.raised
                  ELSE IF ~IsDash(q.app) THEN "TypeError"
                  ELSE "none" IN
         cb' = IF exc # "none"
               THEN [NoCallback EXCEPT !.reg = exc,
                       !.requested = prevent_initial_call,
                       !.dash112 = dash112]
               ELSE [NoCallback EXCEPT !.reg = "registered",
                       !.requested = prevent_initial_call,
                       !.dash112 = dash112,
                       !.kwargs = PreventKwarg(prevent_initial_call, dash112),
                       !.app = q.app, !.root = q.upload_folder_root,
                       !.use_upload_id = use_upload_id]
  /\ UNCHANGED <<handlerVars, rt, settings, outcome>>

\* dash fires the registered callback with the component's properties.
FireCallback ==
  /\ cb.reg = "registered"
  /\ ~cb.fired
  /\ \E callbackbump \in CallbackBumps, uploaded_filenames \in FileNameArgs,
        total_files_count \in FileCounts, sizes \in SizesMb,
        upload_id \in UploadIds :
       LET uploaded_files_size == sizes[1]
           total_files_size == sizes[2]
           r == wrapper(cb.root, callbackbump, uploaded_filenames,
                        total_files_count, uploaded_files_size,
                        total_files_size, upload_id) IN
         cb' = [cb EXCEPT !.fired = TRUE, !.callbackbump = callbackbump,
                  !.uploaded_filenames = uploaded_filenames,
                  !.total_files_count = total_files_count,
                  !.uploaded_files_size = uploaded_files_size,
                  !.total_files_size = total_files_size,
                  !.upload_id = upload_id, !.raised = r.raised,
                  !.calls = r.calls, !.status = r.status,
                  !.persisted =
                    [i \in 1..Len(uploaded_filenames.names) |->
                       PersistedPath(cb.root, cb.use_upload_id, upload_id,
                                     uploaded_filenames.names[i])]]
  /\ UNCHANGED <<handlerVars, rt, settings, outcome>>

\* dash has sent the response of the firing (the output of the user's
\* function, no update, or the error).
FireDone ==
  /\ cb.fired
  /\ cb' = [NoCallback EXCEPT !.reg = cb.reg, !.requested = cb.requested,
                              !.dash112 = cb.dash112, !.kwargs = cb.kwargs,
                              !.app = cb.app, !.root = cb.root,
                              !.use_upload_id = cb.use_upload_id]
  /\ UNCHANGED <<handlerVars, rt, settings, outcome>>

\* UploadStatusLegacy(...).to_dict() called with a list of file paths.
RawPaths == {<<"uploads", "a.zip">>, <<"uploads", ".", "b.zip">>}
RawPathLists ==
  {<<>>} \cup {<<x>> : x \in RawPaths} \cup {<<x, y>> : x, y \in RawPaths}
TotalCounts == {0, 1, 2}

BuildStatus ==
  /\ \E uploaded_files \in RawPathLists, n_total \in TotalCounts,
        sizes \in SizesMb, upload_id \in UploadIds :
       LET status == UploadStatusLegacy(uploaded_files, n_total, sizes[1],
                                        sizes[2], upload_id) IN
         cb' = [NoCallback EXCEPT
                  !.reg = "direct",
                  !.uploaded_filenames =
                    [none |-> FALSE, names |-> uploaded_files],
                  !.total_files_count = n_total,
                  !.uploaded_files_size = sizes[1],
                  !.total_files_size = sizes[2],
                  !.upload_id = upload_id,
                  !.raised = status.error,
                  !.status = status]
  /\ UNCHANGED <<handlerVars, rt, settings, outcome>>

NextStatus == BuildStatus

SpecStatus == Init /\ [][NextStatus]_vars

NextCallback ==
  ConfigureUpload \/ RegisterCallback \/ FireCallback \/ FireDone

SpecCallback == Init /\ [][NextCallback]_vars

(***************************************************************************)
(* Helpers of the properties.                                              *)
(***************************************************************************)
FileKeyOf(w) == KeyOf(req[w])

\* The payloads staged for indices i..n, concatenated in ascending order.
RECURSIVE AscendingConcat(_, _, _)
AscendingConcat(store, i, n) ==
  IF i > n THEN <<>>
  ELSE store[i].payload \o AscendingConcat(store, i + 1, n)

RECURSIVE SumSizes(_, _)
SumSizes(store, S) ==
  IF S = {} THEN 0
  ELSE LET i == CHOOSE x \in S : TRUE IN
         Len(store[i].payload) + SumSizes(store, S \ {i})

\* Worker w takes the step that leaves position p.
Leaves(w, p) == pc[w] = p /\ pc'[w] # p

\* No request is performing the assembly of key k.
NoLiveAssembler(k) ==
  \A v \in Workers :
    ~(pc[v] \in {"concat", "lock_final", "finalize"} /\ FileKeyOf(v) = k)

IdenticalMetadata(k, r) ==
  /\ files[k].total_chunks = r.tchunks
  /\ files[k].total_size = r.tsize
  /\ files[k].chunk_size = r.csize
  /\ ~mixed[k]

(***************************************************************************)
(* C1: when two receive requests for the same (session, file) both        *)
(* observe that all chunks are present, the file is assembled exactly      *)
(* once, the final file equals a sequential assembly, and no staged chunk  *)
(* of that file remains afterwards (no fault injected).                    *)
(***************************************************************************)
BothObservedComplete(k) ==
  /\ faults = 0
  /\ ~overwritten[k]
  /\ \A w \in Workers :
       pc[w] = "done" /\ req[w].kind = "receive" /\ FileKeyOf(w) = k
       /\ res[w] = "AssemblyResult"

C1_AssembledOnceNoLeftover ==
  \A k \in Keys :
    BothObservedComplete(k) =>
      /\ asmCount[k] = 1
      /\ final[k] # NoData
      /\ Staged(k) = {}

\* The part of C1 that holds: never more than one assembly of a file.
C1_AtMostOneAssembly == \A k \in Keys : asmCount[k] <= 1

(***************************************************************************)
(* C2: whatever the order in which the chunks 1..K were received, the      *)
(* file renamed to the final path is the concatenation of the chunk        *)
(* payloads in ascending index order (no staged chunk overwritten).        *)
(***************************************************************************)
C2_AscendingOrder ==
  [][\A k \in Keys :
       (final'[k] # final[k] /\ ~overwritten[k]) =>
         /\ Staged(k) = 1..files[k].total_chunks
         /\ final'[k] = AscendingConcat(chunks[k], 1, files[k].total_chunks)]_vars

\* Chunk 1 of a two-chunk file arrived last, and its request assembled.
C2_Witness ==
  \E w \in Workers :
    /\ pc[w] = "done" /\ res[w] = "AssemblyResult"
    /\ req[w].idx = 1 /\ req[w].tchunks = 2 /\ ci[w] = 3
    /\ ~overwritten[FileKeyOf(w)]
    /\ Len(final[FileKeyOf(w)]) >= 2
    /\ final[FileKeyOf(w)][1] = 1

(***************************************************************************)
(* C3: receiving a chunk whose index is already in received_chunks, with   *)
(* identical metadata, changes neither the staged chunks nor               *)
(* received_chunks.                                                        *)
(***************************************************************************)
C3_DuplicateIsNoOp ==
  [][\A w \in Workers :
       LET k == FileKeyOf(w) IN
         (/\ req[w].kind = "receive"
          /\ Leaves(w, "write") \/ Leaves(w, "mark")
          /\ req[w].idx \in files[k].received_chunks
          /\ IdenticalMetadata(k, req[w]))
         => /\ chunks'[k] = chunks[k]
            /\ files'[k].received_chunks = files[k].received_chunks]_vars

(***************************************************************************)
(* C4: the callback trigger counter fires exactly once per file            *)
(* completion: the number of completion notifications of a file is one     *)
(* once it is Completed (none before), and the counter never decreases.    *)
(***************************************************************************)
C4_OneNotificationPerCompletion ==
  \A k \in Keys :
    notif[k] = IF files[k].status = "Completed" THEN 1 ELSE 0

\* The part of C4 that holds: the counter is monotonic.
C4_CounterNeverDecreases ==
  [][\A s \in Sessions : bump'[s] >= bump[s]]_vars

(***************************************************************************)
(* C5: a probe for an index that has not been received returns NotFound;   *)
(* after a successful receive of that index, any later probe for it with   *)
(* the matching declared size returns Found.                               *)
(***************************************************************************)
ProbeStep(w) == pc[w] = "idle" /\ pc'[w] = "done" /\ req'[w].kind = "probe"

C5_ProbeFoundAfterReceive ==
  [][\A w \in Workers :
       ProbeStep(w) =>
         LET r == req'[w]
             k == KeyOf(r) IN
           /\ (r.idx \notin files[k].received_chunks /\ r.idx \notin Staged(k))
                => res'[w] = "NotFound"
           /\ (r.idx \in files[k].received_chunks /\ IdenticalMetadata(k, r))
                => res'[w] = "Found"]_vars

(***************************************************************************)
(* C6: after an assembly step fails (status Failed, ServerError), the      *)
(* staged chunks are all still present, and a repeat of the completing     *)
(* chunk request re-attempts the assembly.                                 *)
(***************************************************************************)
AllStaged(k) == Staged(k) = 1..files[k].total_chunks

C6_RetryAfterFailure ==
  [][\A w \in Workers :
       LET k == FileKeyOf(w) IN
         /\ (Leaves(w, "concat") /\ res'[w] = "ServerError")
              => files'[k].status = "Failed" /\ Staged(k) = 1..files'[k].total_chunks
                 /\ chunks'[k] = chunks[k]
         /\ (Leaves(w, "mark") /\ files[k].status = "Failed" /\ AllStaged(k)
             /\ IsComplete(files[k]))
              => files'[k].status = "Assembling" /\ pc'[w] = "concat"]_vars

(***************************************************************************)
(* C7: if the worker performing the assembly crashes while the status is   *)
(* Assembling, the chunks are still staged and a repeated last-chunk       *)
(* request re-attempts the assembly (and so can reach Completed).          *)
(***************************************************************************)
CrashedAssembler(k) ==
  /\ files[k].status = "Assembling"
  /\ NoLiveAssembler(k)
  /\ \E v \in Workers : pc[v] = "crashed" /\ FileKeyOf(v) = k

C7_ResumeAfterCrash ==
  [][\A w \in Workers :
       LET k == FileKeyOf(w) IN
         (Leaves(w, "mark") /\ CrashedAssembler(k) /\ ~overwritten[k]
          /\ req[w].idx = req[w].tchunks)
           => /\ AllStaged(k)
              /\ files'[k].status = "Assembling" /\ pc'[w] = "concat"]_vars

(***************************************************************************)
(* C8: a file's status only moves forward, Uploading, Assembling,          *)
(* Completed or Failed; a Completed file never becomes Uploading or        *)
(* Assembling (or anything else) again.                                    *)
(***************************************************************************)
StatusRank(st) ==
  CASE st = "Unregistered" -> 0
    [] st = "Uploading" -> 1
    [] st = "Assembling" -> 2
    [] st = "Completed" -> 3
    [] st = "Failed" -> 3

C8_StatusOnlyForward ==
  [][\A k \in Keys :
       /\ StatusRank(files'[k].status) >= StatusRank(files[k].status)
       /\ files[k].status = "Completed" => files'[k].status = "Completed"]_vars

\* A request that found all chunks received returned on a Completed file
\* that another request had assembled.
C8_Witness ==
  \E w \in Workers :
    /\ pc[w] = "done" /\ res[w] = "AssemblyResult" /\ ci[w] = 0
    /\ files[FileKeyOf(w)].status = "Completed"

(***************************************************************************)
(* C9: for every registered file, received_chunks is a subset of           *)
(* 1..total_chunks and the byte sizes of the received chunks sum to at     *)
(* most the declared total_size.                                           *)
(***************************************************************************)
C9_ReceivedWithinBounds ==
  \A k \in Keys :
    Registered(k) =>
      /\ files[k].received_chunks \subseteq 1..files[k].total_chunks
      /\ SumSizes(chunks[k], files[k].received_chunks \cap Staged(k))
           <= files[k].total_size

\* The part of C9 that holds.
C9_ReceivedIndicesInRange ==
  \A k \in Keys :
    files[k].received_chunks \subseteq 1..files[k].total_chunks

(***************************************************************************)
(* C10: a receive request whose chunk_index is outside [1, total_chunks],  *)
(* or that fails any other validation, is answered with a client error     *)
(* (BadRequest for the index) before any write: no chunk, temporary or     *)
(* final file is created and the tracker and the counter are unchanged.    *)
(***************************************************************************)
ReceiveStep(w) == pc[w] = "idle" /\ pc'[w] # "idle" /\ req'[w].kind = "receive"

Malformed(r) ==
  \/ r.idx < 1
  \/ r.idx > r.tchunks
  \/ r.tsize > MaxFileSize
  \/ r.plen > r.csize
  \/ r.plen < r.csize /\ r.idx # r.tchunks
  \/ r.fname \notin AllowedFiles

C10_InvalidReceiveRejected ==
  [][\A w \in Workers :
       (ReceiveStep(w)
        /\ \/ Malformed(req'[w])
           \/ /\ Registered(KeyOf(req'[w]))
              /\ files[KeyOf(req'[w])].total_chunks # req'[w].tchunks) =>
         /\ pc'[w] = "done"
         /\ res'[w] \in {"BadRequest", "PayloadTooLarge"}
         /\ (req'[w].idx < 1 \/ req'[w].idx > req'[w].tchunks)
              => res'[w] = "BadRequest"
         /\ UNCHANGED <<files, chunks, tmpfile, final, bump>>]_vars

\* A request with chunk_index = 0 was answered BadRequest while another
\* request of the same file has a chunk staged.
C10_Witness ==
  \E w \in Workers :
    /\ pc[w] = "done" /\ req[w].kind = "receive" /\ req[w].idx = 0
    /\ res[w] = "BadRequest"
    /\ \E k \in Keys : Staged(k) # {}

ErrorOutcomes == {"BadRequest", "PayloadTooLarge", "ServerError"}

ErrorStep(w) ==
  \/ pc[w] # "done" /\ pc'[w] = "done" /\ res'[w] \in ErrorOutcomes
  \/ pc[w] # "crashed" /\ pc'[w] = "crashed"

C12_ErrorsKeepStagedChunks ==
  [][/\ (\E w \in Workers : ErrorStep(w)) => chunks' = chunks
     /\ \A k \in Keys :
          files'[k].status # "Completed" =>
            Staged(k) \subseteq DOMAIN chunks'[k]]_vars

\* An assembly failed with all chunks of a two-chunk file still staged.
C12_Witness ==
  \E w \in Workers :
    /\ pc[w] = "done" /\ res[w] = "ServerError"
    /\ files[FileKeyOf(w)].status = "Failed"
    /\ files[FileKeyOf(w)].total_chunks = 2
    /\ Staged(FileKeyOf(w)) = {1, 2}

(***************************************************************************)
(* C13: the final destination path of a file either does not exist or      *)
(* holds the complete assembled content (every chunk 1..total_chunks is    *)
(* in it); a partially written file is never visible at the final path,    *)
(* also when the assembly fails or is interrupted before the rename.       *)
(***************************************************************************)
ChunksIn(data) == {data[j] : j \in 1..Len(data)}

C13_NoPartialFinalFile ==
  \A k \in Keys :
    \/ final[k] = NoData
    \/ ChunksIn(final[k]) = 1..files[k].total_chunks

\* A worker died after concatenating the first of two chunks: the partial
\* content is in the temporary file and nothing is at the final path.
C13_Witness ==
  \E w \in Workers :
    /\ pc[w] = "crashed" /\ ci[w] = 2 /\ req[w].tchunks = 2
    /\ tmpfile[FileKeyOf(w)] # NoData
    /\ ChunksIn(tmpfile[FileKeyOf(w)]) = {1}
    /\ final[FileKeyOf(w)] = NoData

(***************************************************************************)
(* C16: register is idempotent: a receive request for a file that is       *)
(* already registered leaves the registered metadata as it is; with        *)
(* matching total_chunks and total_size the tracker record is unchanged by *)
(* the registration, and with mismatched ones the request is answered      *)
(* BadRequest and the tracker is unchanged.                                *)
(***************************************************************************)
SameRegistration(f, r) ==
  f.total_chunks = r.tchunks /\ f.total_size = r.tsize

C16_RegisterIdempotent ==
  [][\A w \in Workers :
       LET r == req'[w]
           k == <<r.sid, r.fname>> IN
         (ReceiveStep(w) /\ k \in Keys /\ files[k].status # "Unregistered") =>
           /\ files' = files
           /\ (~Malformed(r) /\ SameRegistration(files[k], r))
                => pc'[w] = "write"
           /\ (~Malformed(r) /\ ~SameRegistration(files[k], r))
                => pc'[w] = "done" /\ res'[w] = "BadRequest"]_vars

\* A well-formed request declaring another total_chunks than the
\* registered one was answered BadRequest.
C16_Witness ==
  \E w \in Workers :
    /\ pc[w] = "done" /\ req[w].kind = "receive" /\ res[w] = "BadRequest"
    /\ ~Malformed(req[w])
    /\ files[FileKeyOf(w)].status # "Unregistered"
    /\ files[FileKeyOf(w)].total_chunks # req[w].tchunks

(***************************************************************************)
(* C14: for each (session_id, filename) pair at most one request at a time *)
(* is in a step under the pair's lock (tracker check-and-update, rename,   *)
(* cleanup) and at most one request at a time assembles the file; a        *)
(* request whose own pair's lock is free can always take it, whatever      *)
(* locks of other files or sessions are held.                              *)
(***************************************************************************)
UnderLock(k) ==
  {w \in Workers : pc[w] \in {"mark", "finalize"} /\ FileKeyOf(w) = k}

Assembling(k) ==
  {w \in Workers : pc[w] \in {"concat", "lock_final", "finalize"}
                   /\ FileKeyOf(w) = k}

C17_CompletedUploadReported ==
  \A k \in Keys :
    files[k].status = "Completed" =>
      LET st == Snapshot(k[1]) IN
        /\ st.error = "none"
        /\ st.is_completed
        /\ st.uploaded_size_mb = st.total_size_mb
        /\ ProgressIsOne(st.progress)
        /\ final[k] # NoData
        /\ Len(final[k]) = files[k].total_size

\* The part of C17 that holds: an upload whose staged chunks, none of them
\* overwritten, add up to the declared total size is reported as complete
\* by the step that renames it.
C17_ConsistentUploadReported ==
  [][\A k \in Keys :
       (final'[k] # final[k] /\ Staged(k) = 1..files[k].total_chunks
        /\ ~overwritten[k]
        /\ SumSizes(chunks[k], Staged(k)) = files[k].total_size) =>
         /\ files'[k].status = "Completed"
         /\ Snapshot(k[1])'.is_completed
         /\ Snapshot(k[1])'.uploaded_size_mb = files[k].total_size
         /\ ProgressIsOne(Snapshot(k[1])'.progress)
         /\ Len(final'[k]) = files[k].total_size]_vars

(***************************************************************************)
(* C15: every call of a function wrapped by retry(wait_time, max_time)     *)
(* terminates: it returns the wrapped function's result, or it raises the  *)
(* wrapped function's exception, and that only once the time elapsed since *)
(* the first attempt exceeds max_time.                                     *)
(***************************************************************************)
C15_RetryTerminates ==
  /\ [](rt.pc = "returned" => rt.out = "value" /\ rt.exc = "-")
  /\ [](rt.pc = "raised" =>
          rt.exc = "error" /\ rt.out = "-" /\ rt.now - rt.t0 > rt.max_time)
  /\ (rt.pc = "attempt") ~> (rt.pc \in {"returned", "raised"})

\* A call that raised after more than one attempt.
C15_Witness ==
  /\ rt.pc = "raised" /\ rt.attempts >= 2 /\ rt.sleeps >= 1
  /\ rt.now - rt.t0 > rt.max_time

(***************************************************************************)
(* C18: the lookups by component id return the configuration registered    *)
(* for that id: for an id in user_configs_query the service address and    *)
(* the app of the entry the id was registered with, and for an id that was *)
(* never registered those of the default configuration.                    *)
(***************************************************************************)
EntryOf(st, idx) == st.user_configs[idx + 1]

C18_LookupReturnsRegistered ==
  \A id \in LookupIds :
    LET idx == QueryGet(settings, id)
        svc == query_service_addr(settings, id)
        app == query_app_and_root(settings, id) IN
      /\ idx # None =>
           /\ svc.raised = "none"
           /\ svc.service = EntryOf(settings, idx).service
           /\ app.raised = "none"
           /\ app.app = EntryOf(settings, idx).app
      /\ (idx = None /\ settings.user_configs_default # None) =>
           /\ svc.raised = "none"
           /\ svc.service
                = EntryOf(settings, settings.user_configs_default).service

\* The part of C18 that holds: an id that was never registered gets the
\* default configuration when there is one.
C18_UnregisteredGetsDefault ==
  \A id \in LookupIds :
    (QueryGet(settings, id) = None /\ settings.user_configs_default # None) =>
      /\ query_service_addr(settings, id).service
           = EntryOf(settings, settings.user_configs_default).service
      /\ query_app_and_root(settings, id).raised \in {"none", "TypeError"}
      /\ query_app_and_root(settings, id).raised = "none" =>
           query_app_and_root(settings, id).app
             = EntryOf(settings, settings.user_configs_default).app

(***************************************************************************)
(* C19: a successful configure_remote_upload call with                     *)
(* upload_component_ids = None records the default configuration: after    *)
(* the call user_configs_default is the index of the new entry.            *)
(***************************************************************************)
ConfigureStep == outcome'.tick # outcome.tick

C19_RemoteDefaultRecorded ==
  [][(/\ ConfigureStep
      /\ outcome'.call = "configure_remote_upload"
      /\ outcome'.kind = "none"
      /\ outcome'.raised = "none") =>
       settings'.user_configs_default = Len(settings'.user_configs) - 1]_vars

(***************************************************************************)
(* C20: a component id is never configured twice: a configure_remote_upload*)
(* call with a dash app and well-formed ids that names an id already in    *)
(* user_configs_query raises ValueError and leaves the settings unchanged, *)
(* and after every call each component id is in the upload_component_ids   *)
(* of at most one entry of user_configs, the one user_configs_query gives. *)
(***************************************************************************)
EntriesNaming(st, uid) ==
  {j \in 1..Len(st.user_configs) :
     uid \in Elements(st.user_configs[j].upload_component_ids)}

C20_IdConfiguredOnce ==
  [][ConfigureStep =>
       /\ (/\ outcome'.call = "configure_remote_upload"
           /\ outcome'.app \in {"dash1", "dash2"}
           /\ outcome'.kind # "none"
           /\ "" \notin Elements(outcome'.ids)
           /\ \E uid \in Elements(outcome'.ids) :
                settings.user_configs_query[uid] # None) =>
            outcome'.raised = "ValueError" /\ settings' = settings
       /\ \A uid \in ComponentIds :
            /\ Cardinality(EntriesNaming(settings', uid)) <= 1
            /\ settings'.user_configs_query[uid] # None =>
                 EntriesNaming(settings', uid)
                   = {settings'.user_configs_query[uid] + 1}
            /\ settings'.user_configs_query[uid] = None =>
                 EntriesNaming(settings', uid) = {}]_vars

\* A call naming the already configured id c1 raised ValueError.
C20_Witness ==
  /\ outcome.call = "configure_remote_upload"
  /\ outcome.raised = "ValueError"
  /\ outcome.kind = "seq"
  /\ outcome.ids = <<"c1", "c2">>
  /\ settings.user_configs_query["c1"] # None
  /\ settings.user_configs_query["c2"] = None

\* C21: every firing of the dash callback with a truthy dashAppCallbackBump
\* calls the user's function exactly once, with an UploadStatus, and a
\* firing with a falsy bump does not call it at all (PreventUpdate).
C21_CalledOncePerBump ==
  cb.fired =>
    IF Truthy(cb.callbackbump)
    THEN cb.calls = 1 /\ cb.raised = "none" /\ cb.status.error = "none"
    ELSE cb.calls = 0 /\ cb.raised = "PreventUpdate"

\* What does hold: a falsy bump is never passed on, and a truthy bump with
\* at least one uploaded file name and a total size other than 0 gives
\* exactly one call.
C21_FalsyBumpPrevented ==
  cb.fired /\ ~Truthy(cb.callbackbump) =>
    cb.calls = 0 /\ cb.raised = "PreventUpdate"

C21_CalledWhenStatusBuilt ==
  (/\ cb.fired
   /\ Truthy(cb.callbackbump)
   /\ ~cb.uploaded_filenames.none
   /\ Len(cb.uploaded_filenames.names) > 0
   /\ cb.total_files_size # 0) =>
    cb.calls = 1 /\ cb.raised = "none" /\ cb.status.error = "none"

\* C22: with a dash of at least 1.12, a callback registered without
\* prevent_initial_call (None) gets prevent_initial_call = False unless the
\* app was made with prevent_initial_callbacks = True, and an explicit value
\* is passed through as given.
C22_PreventInitialCallDefault ==
  cb.reg = "registered" /\ cb.dash112 =>
    IF cb.requested = "None"
    THEN RegisteredPreventInitialCall(cb.kwargs, cb.app)
           = PreventInitialCallbacks(cb.app)
    ELSE cb.kwargs = cb.requested

\* What does hold: an explicit value is passed through.
C22_ExplicitPassedThrough ==
  cb.reg = "registered" /\ cb.dash112 /\ cb.requested # "None" =>
    cb.kwargs = cb.requested

C24_NoStagedChunkWhenCompleted ==
  \A k \in Keys : files[k].status = "Completed" => Staged(k) = {}

\* C24: whenever a file's status is Completed, no staged chunk of that file
\* exists, also when a duplicate chunk arrives after completion.  Stated for
\* the runs in which no step has failed (no removal either).
C24_NoStagedChunkWithoutFault ==
  \A k \in Keys :
    files[k].status = "Completed" /\ faults = 0 => Staged(k) = {}

\* What does hold: the step that completes a file leaves no staged chunk of
\* it, unless the removal itself failed.
C24_DeletedWhenAssembled ==
  [][\A w \in Workers :
       (Leaves(w, "finalize") /\ res'[w] = "AssemblyResult"
          /\ faults' = faults)
         => Staged(FileKeyOf(w))' = {}]_vars

C26_SuccessEndsCall ==
  /\ [](rt.ok <= 1)
  /\ [](rt.ok = 1 => rt.pc = "returned" /\ rt.out = "value" /\ rt.exc = "-")
  /\ [][rt.pc = "returned" => rt'.pc = "idle"]_vars

\* The wrapped function failed at least once, the wrapper slept, and an
\* attempt that ended before max_time had elapsed succeeded.
C26_Witness ==
  /\ rt.pc = "returned" /\ rt.ok = 1 /\ rt.out = "value"
  /\ rt.attempts >= 2 /\ rt.sleeps >= 1
  /\ rt.now - rt.t0 <= rt.max_time

\* C27: a retry-wrapped call never starts a new attempt of the wrapped
\* function once the time elapsed since the first attempt has exceeded
\* max_time; the wrapped function is attempted at least once, and
\* consecutive attempts are separated by a wait of wait_time.
C27_NoAttemptAfterBudget ==
  /\ [](rt.pc = "attempt" => rt.now - rt.t0 <= rt.max_time)
  /\ [](rt.pc \in {"returned", "raised"} => rt.attempts >= 1)
  /\ [][rt.pc = "sleep" =>
          rt'.pc = "attempt" /\ rt'.now = rt.now + rt.wait_time]_vars

\* What does hold: the budget is looked at when an attempt has failed, so
\* an attempt starts at most wait_time after max_time.
C27_AttemptWithinBudgetPlusWait ==
  /\ rt.pc = "sleep" => rt.now - rt.t0 <= rt.max_time
  /\ rt.pc = "attempt" => rt.now - rt.t0 <= rt.max_time + rt.wait_time

\* What does hold: at least one attempt, and a wait of wait_time between
\* two attempts.
C27_AttemptedAndSeparated ==
  /\ [](rt.pc \in {"returned", "raised"} => rt.attempts >= 1)
  /\ [](rt.pc # "idle" => rt.sleeps \in {rt.attempts - 1, rt.attempts})
  /\ [][rt.pc = "sleep" =>
          rt'.pc = "attempt" /\ rt'.now = rt.now + rt.wait_time]_vars

\* The call got as far as check_upload_component_ids: configure_upload
\* raises TypeError only for an invalid app or invalid allowed_origins, which
\* are checked first, and configure_remote_upload checks the app first.
ReachedIdCheck(o) ==
  IF o.call = "configure_upload" THEN o.raised # "TypeError"
  ELSE IsDash(o.app)

\* C28: a default configuration exists and a configure call without component
\* ids gets to the check of the ids.  If the app is the default's app the
\* call raises ValueError and the settings are unchanged; if the app is a
\* new one, every configuration and every component-id mapping recorded
\* before is removed before the new configuration is recorded.
C28_DefaultStrictOrReset ==
  [][(/\ ConfigureStep
      /\ outcome'.kind = "none"
      /\ ReachedIdCheck(outcome')
      /\ settings.user_configs_default # None) =>
       IF EntryOf(settings, settings.user_configs_default).app = outcome'.app
       THEN outcome'.raised = "ValueError" /\ settings' = settings
       ELSE /\ outcome'.raised # "ValueError"
            /\ outcome'.cleared = Len(settings.user_configs)
            /\ Len(settings'.user_configs) <= 1
            /\ \A j \in 1..Len(settings'.user_configs) :
                 /\ outcome'.raised = "none"
                 /\ settings'.user_configs[j].app = outcome'.app
            /\ \A uid \in ComponentIds :
                 settings'.user_configs_query[uid] = None]_vars

\* A call with the default's app has raised ValueError.
C28_WitnessStrict ==
  /\ outcome.kind = "none" /\ outcome.raised = "ValueError"
  /\ settings.user_configs_default # None
  /\ EntryOf(settings, settings.user_configs_default).app = outcome.app

\* A call with a new app has removed the two configurations recorded before
\* and recorded its own.
C28_Witness ==
  /\ outcome.kind = "none" /\ outcome.raised = "none"
  /\ outcome.cleared = 2
  /\ Len(settings.user_configs) = 1
  /\ settings.user_configs[1].app = outcome.app

\* C29: after any sequence of configure_upload and configure_remote_upload
\* calls, successful or failing, user_configs_default (when not None) and
\* every value of user_configs_query is a valid index into user_configs, and
\* the entry indexed by user_configs_query[id] lists id among its
\* upload_component_ids.
C29_IndicesValid ==
  /\ settings.user_configs_default # None =>
       settings.user_configs_default \in 0..(Len(settings.user_configs) - 1)
  /\ \A uid \in ComponentIds :
       settings.user_configs_query[uid] # None =>
         /\ settings.user_configs_query[uid]
              \in 0..(Len(settings.user_configs) - 1)
         /\ uid \in Elements(EntryOf(settings,
                      settings.user_configs_query[uid]).upload_component_ids)

\* A default configuration and a component-id mapping are recorded, and the
\* last call raised.
C29_Witness ==
  /\ settings.user_configs_default # None
  /\ \E uid \in ComponentIds : settings.user_configs_query[uid] # None
  /\ outcome.raised \notin {"none", "-"}

\* A reset has removed a component-id mapping, and the call that ran it has
\* recorded its own configuration.
C29_WitnessReset ==
  /\ outcome.cleared = 2 /\ outcome.raised = "none"
  /\ settings.user_configs_default # None
  /\ Len(settings.user_configs) = 1

\* C30: a configure_upload or configure_remote_upload call that raises
\* leaves user_configs, user_configs_query and user_configs_default exactly
\* as they were before the call.
C30_FailedCallKeepsSettings ==
  [][(ConfigureStep /\ outcome'.raised # "none") => settings' = settings]_vars

\* What does hold: a call that raises without having run the reset mode
\* leaves the settings as they were, and a call that raises never records a
\* configuration.
C30_FailedCallRecordsNothing ==
  [][(ConfigureStep /\ outcome'.raised # "none") =>
       /\ outcome'.cleared = 0 => settings' = settings
       /\ outcome'.cleared # 0 => settings' = Cleared]_vars

\* A request for key k has written its chunk and has not registered it yet.
BetweenWriteAndMark(k) ==
  \E w \in Workers : pc[w] \in {"lock_mark", "mark"} /\ FileKeyOf(w) = k

C31_WitnessDetected ==
  \E k \in Keys :
    /\ files[k].status = "Assembling"
    /\ files[k].total_chunks = MaxChunks
    /\ Staged(k) = 1..files[k].total_chunks

\* C32: when every chunk 1..total_chunks of a file has been received, in any
\* order and over any number of connections, with no retry budget exhausted
\* before the rename and fair scheduling of the request workers, the file
\* eventually reaches status Completed.
C32_CompleteSetIsAssembled ==
  \A k \in Keys :
    (Registered(k) /\ IsComplete(files[k])) ~> (files[k].status = "Completed")

\* A file of MaxChunks chunks whose chunk 1 was registered last is
\* Completed, assembled once by the request that brought chunk 1.
C32_Witness ==
  \E w \in Workers :
    LET k == FileKeyOf(w) IN
      /\ pc[w] = "done"
      /\ res[w] = "AssemblyResult"
      /\ req[w].idx = 1
      /\ k \in Keys
      /\ files[k].total_chunks = MaxChunks
      /\ files[k].status = "Completed"
      /\ asmCount[k] = 1
      /\ final[k] # NoData

\* Worker w takes a step, and the session its request belongs to.
WorkerStep(w) == pc'[w] # pc[w] \/ ci'[w] # ci[w]
SessionOf(w) == IF pc[w] = "idle" THEN req'[w].sid ELSE req[w].sid

C34_StatusFields ==
  (cb.reg = "direct" /\ cb.status.error = "none") =>
    LET given == cb.uploaded_filenames.names
        st == cb.status IN
      /\ st.n_uploaded = Len(given)
      /\ Len(st.uploaded_files) = Len(given)
      /\ \A i \in 1..Len(given) : st.uploaded_files[i] = PathStr(given[i])
      /\ st.latest_file = PathStr(given[Len(given)])
      /\ st.latest_file = st.uploaded_files[st.n_uploaded]
      /\ st.is_completed <=> (st.n_uploaded = st.n_total)
      /\ st.n_total = cb.total_files_count
      /\ st.uploaded_size_mb = cb.uploaded_files_size
      /\ st.total_size_mb = cb.total_files_size
      /\ st.progress = <<cb.uploaded_files_size, cb.total_files_size>>
      /\ st.upload_id = cb.upload_id

\* A completed status of two different files, the second given with a "."
\* part in its path.
C34_Witness ==
  /\ cb.reg = "direct" /\ cb.status.error = "none"
  /\ cb.status.n_uploaded = 2 /\ cb.status.n_total = 2
  /\ cb.status.is_completed
  /\ cb.status.uploaded_files[1] # cb.status.uploaded_files[2]
  /\ cb.status.latest_file = <<"uploads", "b.zip">>

\* A status that is not completed.
C34_WitnessIncomplete ==
  /\ cb.reg = "direct" /\ cb.status.error = "none"
  /\ cb.status.n_uploaded = 1 /\ cb.status.n_total = 2
  /\ ~cb.status.is_completed

\* C35: the callback wrapper reports each uploaded file at the path where
\* the handler persisted it, for every filename and in the order of
\* uploaded_filenames.
C35_ReportedWherePersisted ==
  (cb.fired /\ cb.calls = 1) =>
    /\ Len(cb.status.uploaded_files) = Len(cb.persisted)
    /\ \A i \in 1..Len(cb.persisted) :
         cb.status.uploaded_files[i] = cb.persisted[i]

\* What does hold: with use_upload_id = True and file names that are
\* relative, the reported paths are upload_folder_root/upload_id/filename
\* with an upload_id and upload_folder_root/filename without, in the order
\* of uploaded_filenames.
C35_ReportedLayout ==
  (cb.fired /\ cb.calls = 1) =>
    LET names == cb.uploaded_filenames.names IN
      /\ Len(cb.status.uploaded_files) = Len(names)
      /\ \A i \in 1..Len(names) :
           ~IsAbsolute(names[i]) =>
             /\ cb.status.uploaded_files[i] =
                  IF cb.upload_id # "" THEN <<cb.root, cb.upload_id, names[i]>>
                  ELSE <<cb.root, names[i]>>
             /\ cb.use_upload_id =>
                  cb.status.uploaded_files[i] = cb.persisted[i]

====
